---- MODULE Spec2Model ----
(***************************************************************************)
(* Model of the MT4 report converter (src/services/tradeProcessor.ts,      *)
(* src/constants.ts and the App component that drives them).               *)
(*                                                                         *)
(* Text is modelled as a sequence of one-character strings, so that the    *)
(* timestamp pattern is matched and the numbers are read character by      *)
(* character, as the code does.  Instants are whole seconds since the      *)
(* epoch: a Date made from a timestamp has no millisecond part, and the    *)
(* wall clock is read to the second.                                       *)
(***************************************************************************)
EXTENDS Integers, Sequences, FiniteSets, TLC

VARIABLES
    \* the wall clock and the Time Reconciler
    now,                    \* the wall clock, in seconds since the epoch (new Date())
    dateStr,                \* the argument of the last timestamp conversion
    parseOutcome,           \* how that call of parseMT4DateToUTC ended
    utcDate,                \* the Date parseMT4DateToUTC returned
    pineTs,                 \* the PineScriptTimestamp derived from it
    \* parseMT4Report
    parsePc,                \* "idle", "scanning" (in the loop) or "returned"
    allRows,                \* the rows of the document (doc.querySelectorAll('tr'))
    nextRow,                \* the index of the row the loop visits next
    inClosedTransactions,   \* the section flag of the scan
    trades,                 \* the Trade records collected so far
    \* the App component
    reportTrades,           \* what parseMT4Report(content) returned, as it returned it
    rawTrades,              \* useState<Trade[]>: the extracted trades
    beTolerance,            \* useState<number>: the break-even tolerance
    groupedTrades,          \* useState<GroupedTrades | null>
    error,                  \* useState<string | null>
    \* generatePineScriptForItem
    genItem,                \* the item of the last call
    genData,                \* its winners, breakeven and losers
    script                  \* the script it returned, statement by statement

timeVars == <<now, dateStr, parseOutcome, utcDate, pineTs>>

parseVars == <<parsePc, allRows, nextRow, inClosedTransactions, trades>>

appVars == <<reportTrades, rawTrades, beTolerance, groupedTrades, error>>

genVars == <<genItem, genData, script>>

vars == <<timeVars, parseVars, appVars, genVars>>

----------------------------------------------------------------------------
(* src/constants.ts *)

MT4_UTC_OFFSET == 3

TV_UTC_OFFSET == -6

TV_TIMESTAMP_CORRECTION_HOURS == 2

----------------------------------------------------------------------------
(* Characters and numbers *)

Digits == <<"0", "1", "2", "3", "4", "5", "6", "7", "8", "9">>

IsDigit(c) == \E i \in 1..10 : Digits[i] = c

DigitVal(c) == (CHOOSE i \in 1..10 : Digits[i] = c) - 1

\* Number("dddd") of a run of digits: s[from..to] read in base ten.
RECURSIVE NumberOf(_, _, _)
NumberOf(s, from, to) ==
    IF to < from THEN 0
    ELSE 10 * NumberOf(s, from, to - 1) + DigitVal(s[to])

----------------------------------------------------------------------------
(* The timestamp pattern of parseMT4DateToUTC:                             *)
(*   /(\d{4})\.(\d{2})\.(\d{2}) (\d{2}):(\d{2}):(\d{2})/                    *)
(* The pattern is not anchored: String.match finds the leftmost place      *)
(* where the nineteen characters fit.                                      *)

PatternLen == 19

MatchAt(s, i) ==
    /\ i >= 1
    /\ i + PatternLen - 1 <= Len(s)
    /\ \A k \in {0, 1, 2, 3, 5, 6, 8, 9, 11, 12, 14, 15, 17, 18} : IsDigit(s[i + k])
    /\ s[i + 4] = "."
    /\ s[i + 7] = "."
    /\ s[i + 10] = " "
    /\ s[i + 13] = ":"
    /\ s[i + 16] = ":"

HasMatch(s) == \E i \in 1..Len(s) : MatchAt(s, i)

FirstMatch(s) == CHOOSE i \in 1..Len(s) : MatchAt(s, i) /\ \A j \in 1..(i - 1) : ~MatchAt(s, j)

\* const [, year, month, day, hours, minutes, seconds] = parts.map(Number)
PartsAt(s, i) ==
    [year    |-> NumberOf(s, i, i + 3),
     month   |-> NumberOf(s, i + 5, i + 6),
     day     |-> NumberOf(s, i + 8, i + 9),
     hours   |-> NumberOf(s, i + 11, i + 12),
     minutes |-> NumberOf(s, i + 14, i + 15),
     seconds |-> NumberOf(s, i + 17, i + 18)]

PartsOf(s) == PartsAt(s, FirstMatch(s))

----------------------------------------------------------------------------
(* The Date arithmetic the code relies on (ECMAScript Date, in seconds).   *)

SecPerHour == 3600

SecPerDay == 86400

\* Day number (days since 1970-01-01) of the proleptic Gregorian date y-m-d,
\* m in 1..12; d may lie outside the month (MakeDay adds d - 1 days).
DayOfEra(yoe, mp, d) ==
    yoe * 365 + (yoe \div 4) - (yoe \div 100) + ((153 * mp + 2) \div 5) + d - 1

DaysInEra(yy, mp, d) ==
    (yy \div 400) * 146097 + DayOfEra(yy - (yy \div 400) * 400, mp, d) - 719468

DaysFromCivil(y, m, d) ==
    DaysInEra(IF m <= 2 THEN y - 1 ELSE y, IF m > 2 THEN m - 3 ELSE m + 9, d)

\* Date.UTC(year, monthIndex, day, hours, minutes, seconds): a year of 0..99
\* means 1900 + year; fields out of range carry over.
FullYear(year) == IF year >= 0 /\ year <= 99 THEN 1900 + year ELSE year

DateUTC(year, monthIndex, day, hours, minutes, seconds) ==
    DaysFromCivil(FullYear(year) + (monthIndex \div 12), (monthIndex % 12) + 1, 1) * SecPerDay
      + (day - 1) * SecPerDay + hours * SecPerHour + minutes * 60 + seconds

\* The calendar fields of an instant: getUTCFullYear, getUTCMonth (0..11),
\* getUTCDate, getUTCHours, getUTCMinutes.
CivilOfMonth(yBase, doy, mp) ==
    [year  |-> yBase + (IF mp < 10 THEN 0 ELSE 1),
     month |-> IF mp < 10 THEN mp + 3 ELSE mp - 9,
     day   |-> doy - ((153 * mp + 2) \div 5) + 1]

CivilOfDayOfYear(yBase, doy) == CivilOfMonth(yBase, doy, (5 * doy + 2) \div 153)

CivilOfYearOfEra(era, doe, yoe) ==
    CivilOfDayOfYear(yoe + era * 400, doe - (365 * yoe + (yoe \div 4) - (yoe \div 100)))

CivilOfDayOfEra(era, doe) ==
    CivilOfYearOfEra(era, doe,
                     (doe - (doe \div 1460) + (doe \div 36524) - (doe \div 146096)) \div 365)

CivilOfShifted(zz) == CivilOfDayOfEra(zz \div 146097, zz - (zz \div 146097) * 146097)

CivilFromDays(z) == CivilOfShifted(z + 719468)

getUTCFullYear(t) == CivilFromDays(t \div SecPerDay).year

getUTCMonth(t) == CivilFromDays(t \div SecPerDay).month - 1

getUTCDate(t) == CivilFromDays(t \div SecPerDay).day

getUTCHours(t) == (t % SecPerDay) \div SecPerHour

getUTCMinutes(t) == (t % SecPerHour) \div 60

\* date.setUTCHours(h): the day, minutes and seconds of t kept, the hour
\* replaced by h, which may lie outside 0..23 and then carries into the day.
setUTCHours(t, h) == (t \div SecPerDay) * SecPerDay + h * SecPerHour + (t % SecPerHour)

----------------------------------------------------------------------------
(* Time Reconciler *)

\* parseMT4DateToUTC with the server offset as a parameter.  `clock` is what
\* new Date() reads when the string does not match.
PseudoUTCDate(p) == DateUTC(p.year, p.month - 1, p.day, p.hours, p.minutes, p.seconds)

\* pseudoUTCDate.setUTCHours(pseudoUTCDate.getUTCHours() - offset)
MinusServerOffset(pseudoUTCDate, serverOffset) ==
    setUTCHours(pseudoUTCDate, getUTCHours(pseudoUTCDate) - serverOffset)

parseMT4DateToUTCWith(s, clock, serverOffset) ==
    IF ~HasMatch(s) THEN clock
    ELSE MinusServerOffset(PseudoUTCDate(PartsOf(s)), serverOffset)

parseMT4DateToUTC(s, clock) == parseMT4DateToUTCWith(s, clock, MT4_UTC_OFFSET)

\* convertToPineScriptTimestamp with the two display constants as parameters.
TimestampFields(adjustedDate) ==
    [year    |-> getUTCFullYear(adjustedDate),
     month   |-> getUTCMonth(adjustedDate) + 1,
     day     |-> getUTCDate(adjustedDate),
     hours   |-> getUTCHours(adjustedDate),
     minutes |-> getUTCMinutes(adjustedDate)]

\* adjustedDate.setUTCHours(adjustedDate.getUTCHours() + hourAdjustment)
PlusHourAdjustment(t, hourAdjustment) == setUTCHours(t, getUTCHours(t) + hourAdjustment)

\* The hour adjustment without the correction: the target offset alone.
ConvertWithoutCorrection(t, targetOffset, correction) ==
    TimestampFields(PlusHourAdjustment(t, targetOffset))

convertToPineScriptTimestampWith(t, targetOffset, correction) ==
    TimestampFields(PlusHourAdjustment(t, targetOffset + correction))

convertToPineScriptTimestamp(t) ==
    convertToPineScriptTimestampWith(t, TV_UTC_OFFSET, TV_TIMESTAMP_CORRECTION_HOURS)

----------------------------------------------------------------------------
(* Timestamp strings the conversions are tried on *)

Fmt2(n) == <<Digits[(n \div 10) + 1], Digits[(n % 10) + 1]>>

Fmt4(n) == Fmt2(n \div 100) \o Fmt2(n % 100)

\* The text "YYYY.MM.DD HH:MM:SS" of six numbers, as the report prints it.
Stamp(y, mo, d, h, mi, s) ==
    Fmt4(y) \o <<".">> \o Fmt2(mo) \o <<".">> \o Fmt2(d) \o <<" ">>
      \o Fmt2(h) \o <<":">> \o Fmt2(mi) \o <<":">> \o Fmt2(s)

\* Real dates and times of day around every carry: into the previous day,
\* month and year, over 28 and 29 February, in a leap and a common year.
CalendarStamps ==
    { Stamp(y, md[1], md[2], h, mi, s) :
        y \in {2023, 2024},
        md \in {<<1, 1>>, <<1, 10>>, <<2, 28>>, <<3, 1>>, <<12, 31>>},
        h \in {0, 6, 7, 10, 23},
        mi \in {0, 59},
        s \in {0, 59} }

\* Strings the pattern fits although they name no real date or time, or hold
\* more than the timestamp.
OddStamps ==
    { Stamp(2024, 2, 29, 3, 15, 0),
      Stamp(2023, 2, 29, 3, 15, 0),
      Stamp(2024, 13, 1, 10, 0, 0),
      Stamp(2024, 0, 10, 10, 0, 0),
      Stamp(2024, 1, 0, 10, 0, 0),
      Stamp(2024, 1, 10, 24, 0, 0),
      Stamp(2024, 1, 10, 10, 75, 0),
      Stamp(2024, 1, 10, 10, 0, 99),
      Stamp(50, 1, 10, 10, 0, 0),
      <<"x">> \o Stamp(2024, 1, 10, 10, 0, 0),
      Stamp(2024, 1, 10, 10, 0, 0) \o <<"Z">>,
      <<"1">> \o Stamp(2024, 1, 10, 10, 0, 0) }

\* Strings the pattern does not fit.
MalformedStamps ==
    { <<>>,
      <<"n", "/", "a">>,
      SubSeq(Stamp(2024, 1, 10, 10, 0, 0), 1, 16),
      SubSeq(Stamp(2024, 1, 10, 10, 0, 0), 1, 10),
      [Stamp(2024, 1, 10, 10, 0, 0) EXCEPT ![5] = "-", ![8] = "-"],
      [Stamp(2024, 1, 10, 10, 0, 0) EXCEPT ![11] = "T"],
      [Stamp(2024, 1, 10, 10, 0, 0) EXCEPT ![1] = "Y"] }

TimeInputs == CalendarStamps \cup OddStamps \cup MalformedStamps

----------------------------------------------------------------------------
(* The wall clock *)

MaxTicks == 2

NowStart == DateUTC(2024, 0, 10, 12, 0, 0)

NoTimestamp == [year |-> 0, month |-> 0, day |-> 0, hours |-> 0, minutes |-> 0]

\* Time passes between two calls.
Tick ==
    /\ now < NowStart + MaxTicks * SecPerHour
    /\ now' = now + SecPerHour
    /\ UNCHANGED <<dateStr, parseOutcome, utcDate, pineTs>>
    /\ UNCHANGED <<parseVars, appVars, genVars>>

\* One trade event's time taken through both conversions, as
\* generatePineScriptForItem does for every open and close time.
Convert(s) ==
    /\ dateStr' = s
    /\ parseOutcome' = "returned"
    /\ utcDate' = parseMT4DateToUTC(s, now)
    /\ pineTs' = convertToPineScriptTimestamp(utcDate')
    /\ UNCHANGED now
    /\ UNCHANGED <<parseVars, appVars, genVars>>

TimeNext ==
    \/ Tick
    \/ \E s \in TimeInputs : Convert(s)

----------------------------------------------------------------------------
(* Calendar reckoning by hand, for stating the time claims: one hour at a  *)
(* time, carrying into the day, the month and the year.                    *)

IsLeapYear(y) == (y % 4 = 0 /\ y % 100 # 0) \/ y % 400 = 0

DaysInMonth(y, m) ==
    IF m = 2 THEN (IF IsLeapYear(y) THEN 29 ELSE 28)
    ELSE IF m \in {4, 6, 9, 11} THEN 30 ELSE 31

HourEarlier(f) ==
    IF f.hours > 0 THEN [f EXCEPT !.hours = f.hours - 1]
    ELSE IF f.day > 1 THEN [f EXCEPT !.hours = 23, !.day = f.day - 1]
    ELSE IF f.month > 1
         THEN [f EXCEPT !.hours = 23, !.day = DaysInMonth(f.year, f.month - 1), !.month = f.month - 1]
    ELSE [f EXCEPT !.hours = 23, !.day = 31, !.month = 12, !.year = f.year - 1]

HourLater(f) ==
    IF f.hours < 23 THEN [f EXCEPT !.hours = f.hours + 1]
    ELSE IF f.day < DaysInMonth(f.year, f.month) THEN [f EXCEPT !.hours = 0, !.day = f.day + 1]
    ELSE IF f.month < 12 THEN [f EXCEPT !.hours = 0, !.day = 1, !.month = f.month + 1]
    ELSE [f EXCEPT !.hours = 0, !.day = 1, !.month = 1, !.year = f.year + 1]

RECURSIVE ShiftHours(_, _)
ShiftHours(f, k) ==
    IF k = 0 THEN f
    ELSE IF k < 0 THEN ShiftHours(HourEarlier(f), k + 1)
    ELSE ShiftHours(HourLater(f), k - 1)

\* The whole string is one timestamp (the pattern anchored at both ends).
WholeMatch(s) == Len(s) = PatternLen /\ MatchAt(s, 1)

\* A valid timestamp: the whole string fits the pattern and names a real date
\* and time of day in the range of the MT4 datetime type (from 1970 on).
ValidTimestamp(s) ==
    /\ WholeMatch(s)
    /\ LET p == PartsOf(s) IN
       /\ p.year >= 1970
       /\ p.month \in 1..12
       /\ p.day \in 1..DaysInMonth(p.year, p.month)
       /\ p.hours \in 0..23
       /\ p.minutes \in 0..59
       /\ p.seconds \in 0..59

\* The server-local calendar and clock value a valid string names.
ServerLocal(s) ==
    LET p == PartsOf(s) IN
    [year |-> p.year, month |-> p.month, day |-> p.day, hours |-> p.hours, minutes |-> p.minutes]

DisplayWith(s, serverOffset, targetOffset, correction) ==
    convertToPineScriptTimestampWith(parseMT4DateToUTCWith(s, now, serverOffset),
                                     targetOffset, correction)

ServerOffsets == {MT4_UTC_OFFSET - 1, MT4_UTC_OFFSET, MT4_UTC_OFFSET + 1}

TargetOffsets == {TV_UTC_OFFSET, TV_UTC_OFFSET + 1, 0}

Corrections == {0, TV_TIMESTAMP_CORRECTION_HOURS}

Converted == parseOutcome # "none"

\* C5 (as the specification states it): a string that is not, as a whole, a
\* timestamp of the pattern YYYY.MM.DD HH:MM:SS makes the conversion fail with
\* a MalformedTimestamp error; the wall clock is never substituted.
C5_MalformedTimestampFails ==
    (Converted /\ ~WholeMatch(dateStr)) => parseOutcome = "MalformedTimestamp"

\* C9: for every valid timestamp string the display timestamp is the
\* server-local value shifted by (-serverOffset + targetOffset + correction)
\* whole hours with the carries into day, month and year; minutes unchanged,
\* month in 1..12, hours in 0..23; with the defaults 7 hours earlier; one more
\* hour of server offset is one hour earlier, one more of target offset one
\* hour later.
C9_DisplayIsOffsetLinear ==
    (Converted /\ ValidTimestamp(dateStr)) =>
        LET local == ServerLocal(dateStr) IN
        /\ pineTs = ShiftHours(local, -7)
        /\ pineTs.minutes = local.minutes
        /\ pineTs.month \in 1..12
        /\ pineTs.hours \in 0..23
        /\ \A so \in ServerOffsets, to \in TargetOffsets, c \in Corrections :
              DisplayWith(dateStr, so, to, c) = ShiftHours(local, -so + to + c)
        /\ DisplayWith(dateStr, MT4_UTC_OFFSET + 1, TV_UTC_OFFSET, TV_TIMESTAMP_CORRECTION_HOURS)
              = ShiftHours(pineTs, -1)
        /\ DisplayWith(dateStr, MT4_UTC_OFFSET, TV_UTC_OFFSET + 1, TV_TIMESTAMP_CORRECTION_HOURS)
              = ShiftHours(pineTs, 1)

\* A valid string whose display timestamp falls in the previous year.
C9_Witness ==
    /\ Converted
    /\ ValidTimestamp(dateStr)
    /\ pineTs.year = ServerLocal(dateStr).year - 1
    /\ pineTs.month = 12
    /\ pineTs.day = 31

----------------------------------------------------------------------------
(* Text operations of the report parser *)

WhiteSpace == {" ", "\t", "\n"}

RECURSIVE TrimStart(_)
TrimStart(s) == IF s = <<>> \/ Head(s) \notin WhiteSpace THEN s ELSE TrimStart(Tail(s))

RECURSIVE TrimEnd(_)
TrimEnd(s) ==
    IF s = <<>> \/ s[Len(s)] \notin WhiteSpace THEN s ELSE TrimEnd(SubSeq(s, 1, Len(s) - 1))

\* String.prototype.trim
Trim(s) == TrimEnd(TrimStart(s))

UpperLetters == <<"A", "B", "C", "D", "E", "F", "G", "H", "I", "J", "K", "L", "M", "N", "O", "P", "Q", "R", "S", "T", "U", "V", "W", "X", "Y", "Z">>

LowerLetters == <<"a", "b", "c", "d", "e", "f", "g", "h", "i", "j", "k", "l", "m", "n", "o", "p", "q", "r", "s", "t", "u", "v", "w", "x", "y", "z">>

LowerChar(c) ==
    IF \E i \in 1..26 : UpperLetters[i] = c
    THEN LowerLetters[CHOOSE i \in 1..26 : UpperLetters[i] = c]
    ELSE c

\* String.prototype.toLowerCase
ToLowerCase(s) == [i \in 1..Len(s) |-> LowerChar(s[i])]

\* String.prototype.includes
Includes(s, pat) == \E i \in 0..(Len(s) - Len(pat)) : SubSeq(s, i + 1, i + Len(pat)) = pat

\* The length of the run of digits of s that starts at position i.
RECURSIVE DigitRun(_, _)
DigitRun(s, i) == IF i <= Len(s) /\ IsDigit(s[i]) THEN 1 + DigitRun(s, i + 1) ELSE 0

\* Numbers are counted in thousandths; NaN is a value of its own.
NumScale == 1000

NaN == [nan |-> TRUE, v |-> 0]

Num(v) == [nan |-> FALSE, v |-> v]

\* The first three decimals of the run of k digits of s that starts at i.
FractionOf(s, i, k) ==
    IF k = 0 THEN 0
    ELSE IF k = 1 THEN 100 * NumberOf(s, i, i)
    ELSE IF k = 2 THEN 10 * NumberOf(s, i, i + 1)
    ELSE NumberOf(s, i, i + 2)

\* parseFloat: leading white space skipped, then the longest prefix that is a
\* decimal literal (sign, digits, point, digits); NaN when there is none.
\* Digits past the third decimal are dropped; exponents and "Infinity" are not
\* modelled (no cell text tried here holds either).
parseFloat(text) ==
    LET s       == TrimStart(text)
        signed  == s # <<>> /\ Head(s) \in {"+", "-"}
        start   == IF signed THEN 2 ELSE 1
        nInt    == DigitRun(s, start)
        hasDot  == start + nInt <= Len(s) /\ s[start + nInt] = "."
        nFrac   == IF hasDot THEN DigitRun(s, start + nInt + 1) ELSE 0
        whole   == NumberOf(s, start, start + nInt - 1)
        mag     == whole * NumScale + FractionOf(s, start + nInt + 1, nFrac)
    IN  IF nInt = 0 /\ nFrac = 0 THEN NaN
        ELSE IF signed /\ Head(s) = "-" THEN Num(-mag)
        ELSE Num(mag)

\* text || '0'
OrZero(text) == IF text = <<>> THEN <<"0">> ELSE text

\* The literals of parseMT4Report.
ClosedTransactionsMarker == <<"C", "l", "o", "s", "e", "d", " ", "T", "r", "a", "n", "s", "a", "c", "t", "i", "o", "n", "s", ":">>

OpenTradesMarker == <<"O", "p", "e", "n", " ", "T", "r", "a", "d", "e", "s", ":">>

WorkingOrdersMarker == <<"W", "o", "r", "k", "i", "n", "g", " ", "O", "r", "d", "e", "r", "s", ":">>

TxtBuy == <<"b", "u", "y">>

TxtSell == <<"s", "e", "l", "l">>

TradeRowCells == 14

----------------------------------------------------------------------------
(* parseMT4Report: the scan over the rows of the document.  A row is the   *)
(* sequence of the texts of its td cells.                                  *)

\* The Trade record built from a 14-cell row whose type is buy or sell.
TradeOfRow(cells, type) ==
    [ticket       |-> Trim(cells[1]),
     openTimeRaw  |-> Trim(cells[2]),
     type         |-> type,
     size         |-> parseFloat(OrZero(Trim(cells[4]))),
     item         |-> ToLowerCase(Trim(cells[5])),
     openPrice    |-> parseFloat(OrZero(Trim(cells[6]))),
     closeTimeRaw |-> Trim(cells[9]),
     closePrice   |-> parseFloat(OrZero(Trim(cells[10]))),
     profit       |-> parseFloat(OrZero(Trim(cells[14])))]

\* The loop body with continue in the place of break at the end marker.
ScanRowContinue(cells, inClosed, acc) ==
    IF Len(cells) > 0 /\ Includes(cells[1], ClosedTransactionsMarker)
    THEN [inClosedTransactions |-> TRUE, trades |-> acc, break |-> FALSE]
    ELSE IF Len(cells) > 0
            /\ (Includes(cells[1], OpenTradesMarker) \/ Includes(cells[1], WorkingOrdersMarker))
    THEN [inClosedTransactions |-> FALSE, trades |-> acc, break |-> FALSE]
    ELSE IF inClosed /\ Len(cells) = TradeRowCells /\ ToLowerCase(Trim(cells[3])) \in {TxtBuy, TxtSell}
            /\ ToLowerCase(Trim(cells[5])) # <<>>
    THEN [inClosedTransactions |-> inClosed,
          trades |-> Append(acc, TradeOfRow(cells, ToLowerCase(Trim(cells[3])))),
          break |-> FALSE]
    ELSE [inClosedTransactions |-> inClosed, trades |-> acc, break |-> FALSE]

\* The loop body without the check of the type cell.
ScanRowAnyType(cells, inClosed, acc) ==
    IF Len(cells) > 0 /\ Includes(cells[1], ClosedTransactionsMarker)
    THEN [inClosedTransactions |-> TRUE, trades |-> acc, break |-> FALSE]
    ELSE IF Len(cells) > 0
            /\ (Includes(cells[1], OpenTradesMarker) \/ Includes(cells[1], WorkingOrdersMarker))
    THEN [inClosedTransactions |-> FALSE, trades |-> acc, break |-> TRUE]
    ELSE IF inClosed /\ Len(cells) = TradeRowCells /\ ToLowerCase(Trim(cells[5])) # <<>>
    THEN [inClosedTransactions |-> inClosed,
          trades |-> Append(acc, TradeOfRow(cells, ToLowerCase(Trim(cells[3])))),
          break |-> FALSE]
    ELSE [inClosedTransactions |-> inClosed, trades |-> acc, break |-> FALSE]

\* One pass of the loop body over a row: the section flag and the trades
\* after it, and whether the loop was left (break).
ScanRow(cells, inClosed, acc) ==
    IF Len(cells) > 0 /\ Includes(cells[1], ClosedTransactionsMarker)
    THEN [inClosedTransactions |-> TRUE, trades |-> acc, break |-> FALSE]
    ELSE IF Len(cells) > 0
            /\ (Includes(cells[1], OpenTradesMarker) \/ Includes(cells[1], WorkingOrdersMarker))
    THEN [inClosedTransactions |-> FALSE, trades |-> acc, break |-> TRUE]
    ELSE IF inClosed /\ Len(cells) = TradeRowCells
    THEN LET type == ToLowerCase(Trim(cells[3])) IN
         IF type # TxtBuy /\ type # TxtSell
         THEN [inClosedTransactions |-> inClosed, trades |-> acc, break |-> FALSE]
         ELSE LET trade == TradeOfRow(cells, type) IN
              [inClosedTransactions |-> inClosed,
               trades |-> IF trade.item # <<>> THEN Append(acc, trade) ELSE acc,
               break |-> FALSE]
    ELSE [inClosedTransactions |-> inClosed, trades |-> acc, break |-> FALSE]

\* parser.parseFromString and querySelectorAll('tr'): the rows of the uploaded
\* document; the scan starts outside the closed section with no trades.
StartParse(rows) ==
    /\ parsePc = "idle"
    /\ parsePc' = "scanning"
    /\ allRows' = rows
    /\ nextRow' = 1
    /\ inClosedTransactions' = FALSE
    /\ trades' = <<>>
    /\ UNCHANGED <<timeVars, appVars, genVars>>

\* The loop body on the next row; on break the function returns trades.
VisitRow ==
    /\ parsePc = "scanning"
    /\ nextRow <= Len(allRows)
    /\ LET r == ScanRow(allRows[nextRow], inClosedTransactions, trades) IN
       /\ inClosedTransactions' = r.inClosedTransactions
       /\ trades' = r.trades
       /\ parsePc' = IF r.break THEN "returned" ELSE "scanning"
    /\ nextRow' = nextRow + 1
    /\ UNCHANGED allRows
    /\ UNCHANGED <<timeVars, appVars, genVars>>

\* The rows are exhausted: return trades.
ReturnTrades ==
    /\ parsePc = "scanning"
    /\ nextRow > Len(allRows)
    /\ parsePc' = "returned"
    /\ UNCHANGED <<allRows, nextRow, inClosedTransactions, trades>>
    /\ UNCHANGED <<timeVars, appVars, genVars>>

----------------------------------------------------------------------------
(* The rows the scan is tried on *)

\* The heading row of the closed section.
RowClosedMarker == <<ClosedTransactionsMarker>>

\* The heading row of the open positions.
RowOpenMarker == <<OpenTradesMarker>>

\* A row of fourteen cells, type buy, whose first cell holds "Working Orders:".
RowWorkingMarker ==
    <<<<"W", "o", "r", "k", "i", "n", "g", " ", "O", "r", "d", "e", "r", "s", ":">>,
      <<"2", "0", "2", "4", ".", "0", "1", ".", "1", "0", " ", "1", "0", ":", "0", "0", ":", "0", "0">>,
      <<"b", "u", "y">>,
      <<"0", ".", "1", "0">>,
      <<"e", "u", "r", "u", "s", "d">>,
      <<"1", ".", "1", "0", "0", "0">>,
      <<"0", ".", "0", "0", "0", "0", "0">>,
      <<"0", ".", "0", "0", "0", "0", "0">>,
      <<"2", "0", "2", "4", ".", "0", "1", ".", "1", "0", " ", "1", "1", ":", "0", "0", ":", "0", "0">>,
      <<"1", ".", "1", "0", "5", "0">>,
      <<"0", ".", "0", "0">>,
      <<"0", ".", "0", "0">>,
      <<"0", ".", "0", "0">>,
      <<"5", "0", ".", "0", "0">>>>

\* A row of fourteen cells, type buy, whose first cell holds both the closed
\* and the open marker (the first cell of a row that wraps a whole report).
RowBothMarkers ==
    <<<<"C", "l", "o", "s", "e", "d", " ", "T", "r", "a", "n", "s", "a", "c", "t", "i", "o", "n", "s", ":", " ", "O", "p", "e", "n", " ", "T", "r", "a", "d", "e", "s", ":">>,
      <<"2", "0", "2", "4", ".", "0", "1", ".", "1", "0", " ", "1", "0", ":", "0", "0", ":", "0", "0">>,
      <<"b", "u", "y">>,
      <<"0", ".", "1", "0">>,
      <<"e", "u", "r", "u", "s", "d">>,
      <<"1", ".", "1", "0", "0", "0">>,
      <<"0", ".", "0", "0", "0", "0", "0">>,
      <<"0", ".", "0", "0", "0", "0", "0">>,
      <<"2", "0", "2", "4", ".", "0", "1", ".", "1", "0", " ", "1", "1", ":", "0", "0", ":", "0", "0">>,
      <<"1", ".", "1", "0", "5", "0">>,
      <<"0", ".", "0", "0">>,
      <<"0", ".", "0", "0">>,
      <<"0", ".", "0", "0">>,
      <<"5", "0", ".", "0", "0">>>>

\* The closed buy trade 100001.
RowBuy ==
    <<<<"1", "0", "0", "0", "0", "1">>,
      <<"2", "0", "2", "4", ".", "0", "1", ".", "1", "0", " ", "1", "0", ":", "0", "0", ":", "0", "0">>,
      <<"b", "u", "y">>,
      <<"0", ".", "1", "0">>,
      <<"e", "u", "r", "u", "s", "d">>,
      <<"1", ".", "1", "0", "0", "0">>,
      <<"0", ".", "0", "0", "0", "0", "0">>,
      <<"0", ".", "0", "0", "0", "0", "0">>,
      <<"2", "0", "2", "4", ".", "0", "1", ".", "1", "0", " ", "1", "1", ":", "0", "0", ":", "0", "0">>,
      <<"1", ".", "1", "0", "5", "0">>,
      <<"0", ".", "0", "0">>,
      <<"0", ".", "0", "0">>,
      <<"0", ".", "0", "0">>,
      <<"5", "0", ".", "0", "0">>>>

\* A sell trade in untidy text: padded and upper-case cells, an empty size,
\* a price followed by letters, and an open price and a profit that are no
\* numbers.
RowSellUntidy ==
    <<<<" ", "1", "0", "0", "0", "0", "2", " ">>,
      <<"2", "0", "2", "4", ".", "0", "1", ".", "0", "9", " ", "2", "3", ":", "3", "0", ":", "0", "0">>,
      <<" ", "S", "E", "L", "L", " ">>,
      <<>>,
      <<" ", "X", "A", "U", "U", "S", "D", "\n">>,
      <<"a", "b", "c">>,
      <<"0", ".", "0", "0", "0", "0", "0">>,
      <<"0", ".", "0", "0", "0", "0", "0">>,
      <<"2", "0", "2", "4", ".", "0", "1", ".", "1", "0", " ", "0", "1", ":", "0", "0", ":", "0", "0">>,
      <<"1", "2", "a", "b", "c">>,
      <<"0", ".", "0", "0">>,
      <<"0", ".", "0", "0">>,
      <<"0", ".", "0", "0">>,
      <<"n", "/", "a">>>>

\* A cancelled pending order, fourteen cells, type "buy limit"; its second
\* cell mentions "Open Trades:".
RowBuyLimit ==
    <<<<"1", "0", "0", "0", "0", "3">>,
      <<"O", "p", "e", "n", " ", "T", "r", "a", "d", "e", "s", ":">>,
      <<"b", "u", "y", " ", "l", "i", "m", "i", "t">>,
      <<"0", ".", "1", "0">>,
      <<"e", "u", "r", "u", "s", "d">>,
      <<"1", ".", "0", "9", "0", "0">>,
      <<"0", ".", "0", "0", "0", "0", "0">>,
      <<"0", ".", "0", "0", "0", "0", "0">>,
      <<>>,
      <<"1", ".", "1", "0", "5", "0">>,
      <<"0", ".", "0", "0">>,
      <<"0", ".", "0", "0">>,
      <<"0", ".", "0", "0">>,
      <<"-", "7", ".", "5">>>>

\* A buy row whose item is blank.
RowBlankItem ==
    <<<<"1", "0", "0", "0", "0", "4">>,
      <<"2", "0", "2", "4", ".", "0", "1", ".", "1", "0", " ", "1", "0", ":", "0", "0", ":", "0", "0">>,
      <<"b", "u", "y">>,
      <<"0", ".", "1", "0">>,
      <<" ", " ">>,
      <<"1", ".", "1", "0", "0", "0">>,
      <<"0", ".", "0", "0", "0", "0", "0">>,
      <<"0", ".", "0", "0", "0", "0", "0">>,
      <<"2", "0", "2", "4", ".", "0", "1", ".", "1", "0", " ", "1", "1", ":", "0", "0", ":", "0", "0">>,
      <<"1", ".", "1", "0", "5", "0">>,
      <<"0", ".", "0", "0">>,
      <<"0", ".", "0", "0">>,
      <<"0", ".", "0", "0">>,
      <<"5", "0", ".", "0", "0">>>>

\* A buy row of thirteen cells.
RowThirteen == SubSeq(RowBuy, 1, 13)

RowKinds ==
    {RowClosedMarker, RowOpenMarker, RowWorkingMarker, RowBothMarkers, RowBuy,
     RowSellUntidy, RowBuyLimit, RowBlankItem, RowThirteen}

MaxRows == 4

Documents == UNION {[1..n -> RowKinds] : n \in 0..MaxRows}

ParseNext ==
    \/ parsePc = "idle" /\ \E rows \in Documents : StartParse(rows)
    \/ VisitRow
    \/ ReturnTrades


----------------------------------------------------------------------------
(* Numbers as JavaScript compares and prints them *)

\* a > b, a >= b, a <= b, a < b: false as soon as one side is NaN.
Gt(a, b) == ~a.nan /\ ~b.nan /\ a.v > b.v

Ge(a, b) == ~a.nan /\ ~b.nan /\ a.v >= b.v

Le(a, b) == ~a.nan /\ ~b.nan /\ a.v <= b.v

Lt(a, b) == ~a.nan /\ ~b.nan /\ a.v < b.v

\* -a
Neg(a) == IF a.nan THEN NaN ELSE Num(-a.v)

RECURSIVE IntToDigits(_)
IntToDigits(n) == IF n < 10 THEN <<Digits[n + 1]>> ELSE IntToDigits(n \div 10) \o <<Digits[(n % 10) + 1]>>

\* The decimals of a number of thousandths, without trailing zeros.
FractionDigits(f) ==
    IF f = 0 THEN <<>>
    ELSE IF f % 100 = 0 THEN <<".", Digits[(f \div 100) + 1]>>
    ELSE IF f % 10 = 0 THEN <<".">> \o Fmt2(f \div 10)
    ELSE <<".">> \o Fmt2(f \div 10) \o <<Digits[(f % 10) + 1]>>

\* `${n}`: Number to string.
NumberToString(n) ==
    IF n.nan THEN <<"N", "a", "N">>
    ELSE LET mag == IF n.v < 0 THEN -n.v ELSE n.v IN
         (IF n.v < 0 THEN <<"-">> ELSE <<>>)
           \o IntToDigits(mag \div NumScale) \o FractionDigits(mag % NumScale)

\* `${n}` in the place of n.toFixed(digits).
PlainString(n, digits) == NumberToString(n)

\* n.toFixed(digits), digits in 0..3: the nearest number of that many
\* decimals.  A number of thousandths that lies midway between two is rounded
\* by the double that stands for it; the numbers tried keep off the midway.
toFixed(n, digits) ==
    IF n.nan THEN <<"N", "a", "N">>
    ELSE LET mag  == IF n.v < 0 THEN -n.v ELSE n.v
             unit == IF digits = 0 THEN 1000 ELSE IF digits = 1 THEN 100
                     ELSE IF digits = 2 THEN 10 ELSE 1
             r    == (2 * mag + unit) \div (2 * unit)
             base == NumScale \div unit
             frac == IntToDigits(r % base)
             pad  == [i \in 1..(digits - Len(frac)) |-> "0"]
         IN  (IF n.v < 0 THEN <<"-">> ELSE <<>>) \o IntToDigits(r \div base)
               \o (IF digits = 0 THEN <<>> ELSE <<".">> \o pad \o frac)

----------------------------------------------------------------------------
(* classifyAndGroupTrades *)

\* parseMT4DateToUTC(trade.openTimeRaw).getTime(), the sort key.
OpenTime(trade, clock) == parseMT4DateToUTC(trade.openTimeRaw, clock)

\* Array.prototype.sort with (a, b) => OpenTime(a) - OpenTime(b): a stable
\* sort, so each element goes behind the ones already placed whose time is
\* not later than its own.
InsertAt(front, x, k) == SubSeq(front, 1, k) \o <<x>> \o SubSeq(front, k + 1, Len(front))

NotLaterThan(front, t, clock) == {i \in 1..Len(front) : OpenTime(front[i], clock) <= t}

\* The sort left out: every trade stays where the input had it.
KeepInputOrder(front, x, clock) == Append(front, x)

InsertByOpenTime(front, x, clock) ==
    InsertAt(front, x, Cardinality(NotLaterThan(front, OpenTime(x, clock), clock)))

RECURSIVE SortByOpenTime(_, _)
SortByOpenTime(seq, clock) ==
    IF seq = <<>> THEN <<>>
    ELSE InsertByOpenTime(SortByOpenTime(SubSeq(seq, 1, Len(seq) - 1), clock), seq[Len(seq)], clock)

EmptyGroup == [winners |-> <<>>, breakeven |-> <<>>, losers |-> <<>>]

\* The bucket of one trade.
BucketOf(trade, beTol) ==
    IF Gt(trade.profit, beTol) THEN "winners"
    ELSE IF Ge(trade.profit, Neg(beTol)) /\ Le(trade.profit, beTol) THEN "breakeven"
    ELSE "losers"

\* The first loop: every trade into its item's bucket; a group is made when
\* its item is first met.
WithGroup(grouped, item) ==
    IF item \in DOMAIN grouped THEN grouped ELSE grouped @@ (item :> EmptyGroup)

PushTrade(grouped, trade, bucket) == [grouped EXCEPT ![trade.item][bucket] = Append(@, trade)]

RECURSIVE GroupTrades(_, _, _)
GroupTrades(seq, beTol, grouped) ==
    IF seq = <<>> THEN grouped
    ELSE GroupTrades(Tail(seq), beTol,
                     PushTrade(WithGroup(grouped, Head(seq).item), Head(seq),
                               BucketOf(Head(seq), beTol)))

\* `${winner.openTimeRaw}_${winner.openPrice}`
WinnerKey(winner) == winner.openTimeRaw \o <<"_">> \o NumberToString(winner.openPrice)

\* The Map of the second loop, as its entries in insertion order: a key met
\* again keeps its place, and its trade is replaced by a more profitable one.
EntriesOf(map, key) == {i \in 1..Len(map) : map[i].key = key}

\* The second loop with its comparison turned round: the less profitable
\* trade of a key is the one that stays.
SetIfWorse(map, winner, key, at) ==
    IF at = {} THEN Append(map, [key |-> key, value |-> winner])
    ELSE IF \E i \in at : Lt(winner.profit, map[i].value.profit)
    THEN [i \in 1..Len(map) |-> IF i \in at THEN [key |-> key, value |-> winner] ELSE map[i]]
    ELSE map

\* One pass of the second loop: uniqueWinnersMap after the winner is looked at.
SetIfBetter(map, winner, key, at) ==
    IF at = {} THEN Append(map, [key |-> key, value |-> winner])
    ELSE IF \E i \in at : Gt(winner.profit, map[i].value.profit)
    THEN [i \in 1..Len(map) |-> IF i \in at THEN [key |-> key, value |-> winner] ELSE map[i]]
    ELSE map

PutWinner(map, winner, key) == SetIfBetter(map, winner, key, EntriesOf(map, key))

RECURSIVE UniqueWinnersMap(_, _)
UniqueWinnersMap(winners, map) ==
    IF winners = <<>> THEN map
    ELSE UniqueWinnersMap(Tail(winners), PutWinner(map, Head(winners), WinnerKey(Head(winners))))

MapValues(map) == [i \in 1..Len(map) |-> map[i].value]

\* The winners of one item after the second loop.
DedupWinners(winners, clock) == SortByOpenTime(MapValues(UniqueWinnersMap(winners, <<>>)), clock)

\* The call as a whole: the array it was given, sorted in place, and the
\* GroupedTrades it returns.
DedupAll(grouped, clock) ==
    [item \in DOMAIN grouped |-> [grouped[item] EXCEPT !.winners = DedupWinners(@, clock)]]

ClassifySorted(sortedTrades, beTol, clock) ==
    [allTrades |-> sortedTrades,
     grouped   |-> DedupAll(GroupTrades(sortedTrades, beTol, <<>>), clock)]

classifyAndGroupTrades(allTrades, beTol, clock) ==
    ClassifySorted(SortByOpenTime(allTrades, clock), beTol, clock)

----------------------------------------------------------------------------
(* The App component: the extracted trades, the tolerance and the result    *)

\* null for the grouped trades: the function of no item, which the state
\* never holds otherwise (a result of no item is stored as null).
NullGrouped == <<>>

NoError == "null"

NoTradesError == "No se encontraron transacciones cerradas validas en el reporte."

\* processAndSetTrades(trades, tolerance): the array it was given after the
\* call (sorted in place) and the two states it sets.
SetGrouped(r) ==
    IF DOMAIN r.grouped = {}
    THEN [trades |-> r.allTrades, groupedTrades |-> NullGrouped, error |-> NoTradesError]
    ELSE [trades |-> r.allTrades, groupedTrades |-> r.grouped, error |-> NoError]

processAndSetTrades(tradeList, tolerance, clock) ==
    SetGrouped(classifyAndGroupTrades(tradeList, tolerance, clock))

\* The effect on [beTolerance, rawTrades]: it classifies the stored trades
\* again when there are any.
TradesEffect(stored, tolerance, grouped, err, clock) ==
    IF Len(stored) > 0
    THEN processAndSetTrades(stored, tolerance, clock)
    ELSE [trades |-> stored, groupedTrades |-> grouped, error |-> err]

EffectAfter(first, tolerance, clock) ==
    TradesEffect(first.trades, tolerance, first.groupedTrades, first.error, clock)

\* The stored array as the calls left it, and the states they set.
SetAppState(after) ==
    /\ rawTrades' = after.trades
    /\ groupedTrades' = after.groupedTrades
    /\ error' = after.error

\* reader.onload of handleFileChange, with the effect it triggers: the parsed
\* trades are stored and classified; the array stored is the array classified.
\* A later upload replaces all three states by what the first upload of the
\* same file would have set, so one upload per run is followed.
Upload(parsedTrades) ==
    /\ rawTrades = <<>>
    /\ reportTrades' = parsedTrades
    /\ SetAppState(EffectAfter(processAndSetTrades(parsedTrades, beTolerance, now), beTolerance, now))
    /\ UNCHANGED beTolerance
    /\ UNCHANGED <<timeVars, parseVars, genVars>>

\* handleToleranceChange, with the effect it triggers.
HandleToleranceChange(newTolerance) ==
    /\ newTolerance # beTolerance
    /\ beTolerance' = newTolerance
    /\ SetAppState(TradesEffect(rawTrades, newTolerance, groupedTrades, error, now))
    /\ UNCHANGED reportTrades
    /\ UNCHANGED <<timeVars, parseVars, genVars>>

----------------------------------------------------------------------------
(* The trades and tolerances the App is tried on *)

\* The buy trade 100001 of the round-trip scenario, profit 10.
TradeA ==
    [ticket       |-> <<"1", "0", "0", "0", "0", "1">>,
     openTimeRaw  |-> <<"2", "0", "2", "4", ".", "0", "1", ".", "1", "0", " ", "1", "0", ":", "0", "0", ":", "0", "0">>,
     type         |-> <<"b", "u", "y">>,
     size         |-> Num(100),
     item         |-> <<"e", "u", "r", "u", "s", "d">>,
     openPrice    |-> Num(1100),
     closeTimeRaw |-> <<"2", "0", "2", "4", ".", "0", "1", ".", "1", "0", " ", "1", "1", ":", "0", "0", ":", "0", "0">>,
     closePrice   |-> Num(1105),
     profit       |-> Num(10000)]

\* The same open time and price as 100001, profit 15.
TradeB ==
    [ticket       |-> <<"1", "0", "0", "0", "0", "2">>,
     openTimeRaw  |-> <<"2", "0", "2", "4", ".", "0", "1", ".", "1", "0", " ", "1", "0", ":", "0", "0", ":", "0", "0">>,
     type         |-> <<"s", "e", "l", "l">>,
     size         |-> Num(100),
     item         |-> <<"e", "u", "r", "u", "s", "d">>,
     openPrice    |-> Num(1100),
     closeTimeRaw |-> <<"2", "0", "2", "4", ".", "0", "1", ".", "1", "0", " ", "1", "2", ":", "0", "0", ":", "0", "0">>,
     closePrice   |-> Num(1090),
     profit       |-> Num(15000)]

\* The same open time as 100001 at another price, profit 5.
TradeC ==
    [ticket       |-> <<"1", "0", "0", "0", "0", "3">>,
     openTimeRaw  |-> <<"2", "0", "2", "4", ".", "0", "1", ".", "1", "0", " ", "1", "0", ":", "0", "0", ":", "0", "0">>,
     type         |-> <<"b", "u", "y">>,
     size         |-> Num(100),
     item         |-> <<"e", "u", "r", "u", "s", "d">>,
     openPrice    |-> Num(1200),
     closeTimeRaw |-> <<"2", "0", "2", "4", ".", "0", "1", ".", "1", "1", " ", "0", "0", ":", "3", "0", ":", "0", "0">>,
     closePrice   |-> Num(1250),
     profit       |-> Num(5000)]

\* A sell of the open time and price of 100006, profit -5.
TradeE ==
    [ticket       |-> <<"1", "0", "0", "0", "0", "5">>,
     openTimeRaw  |-> <<"2", "0", "2", "4", ".", "0", "1", ".", "1", "0", " ", "1", "6", ":", "3", "0", ":", "0", "0">>,
     type         |-> <<"s", "e", "l", "l">>,
     size         |-> Num(100),
     item         |-> <<"e", "u", "r", "u", "s", "d">>,
     openPrice    |-> Num(1100),
     closeTimeRaw |-> <<"2", "0", "2", "4", ".", "0", "1", ".", "1", "0", " ", "1", "7", ":", "3", "0", ":", "0", "0">>,
     closePrice   |-> Num(1101),
     profit       |-> Num(-5000)]

\* A trade opened after the clock's first reading, profit 0.
TradeF ==
    [ticket       |-> <<"1", "0", "0", "0", "0", "6">>,
     openTimeRaw  |-> <<"2", "0", "2", "4", ".", "0", "1", ".", "1", "0", " ", "1", "6", ":", "3", "0", ":", "0", "0">>,
     type         |-> <<"b", "u", "y">>,
     size         |-> Num(100),
     item         |-> <<"e", "u", "r", "u", "s", "d">>,
     openPrice    |-> Num(1100),
     closeTimeRaw |-> <<"2", "0", "2", "4", ".", "0", "1", ".", "1", "0", " ", "1", "7", ":", "0", "0", ":", "0", "0">>,
     closePrice   |-> Num(1100),
     profit       |-> Num(0)]

\* A winner whose times are no timestamps.
TradeG ==
    [ticket       |-> <<"1", "0", "0", "0", "0", "7">>,
     openTimeRaw  |-> <<"n", "/", "a">>,
     type         |-> <<"b", "u", "y">>,
     size         |-> Num(100),
     item         |-> <<"e", "u", "r", "u", "s", "d">>,
     openPrice    |-> Num(1100),
     closeTimeRaw |-> <<>>,
     closePrice   |-> Num(1105),
     profit       |-> Num(10000)]

\* The record parseMT4Report makes of a row whose open price and profit are no numbers.
TradeH ==
    [ticket       |-> <<"1", "0", "0", "0", "0", "8">>,
     openTimeRaw  |-> <<"2", "0", "2", "4", ".", "0", "1", ".", "1", "0", " ", "1", "0", ":", "0", "0", ":", "0", "0">>,
     type         |-> <<"s", "e", "l", "l">>,
     size         |-> Num(0),
     item         |-> <<"e", "u", "r", "u", "s", "d">>,
     openPrice    |-> NaN,
     closeTimeRaw |-> <<"2", "0", "2", "4", ".", "0", "1", ".", "1", "0", " ", "1", "1", ":", "0", "0", ":", "0", "0">>,
     closePrice   |-> Num(12000),
     profit       |-> NaN]

\* A winner of another item with the open time and price of 100001.
TradeI ==
    [ticket       |-> <<"1", "0", "0", "0", "0", "9">>,
     openTimeRaw  |-> <<"2", "0", "2", "4", ".", "0", "1", ".", "1", "0", " ", "1", "0", ":", "0", "0", ":", "0", "0">>,
     type         |-> <<"b", "u", "y">>,
     size         |-> Num(100),
     item         |-> <<"x", "a", "u", "u", "s", "d">>,
     openPrice    |-> Num(1100),
     closeTimeRaw |-> <<"2", "0", "2", "4", ".", "0", "1", ".", "1", "0", " ", "1", "1", ":", "0", "0", ":", "0", "0">>,
     closePrice   |-> Num(1105),
     profit       |-> Num(15000)]

TradePool == {TradeA, TradeB, TradeC, TradeE, TradeF, TradeG, TradeH, TradeI}

MaxTrades == 3

\* The trades of a report: every ticket once.
TradeLists ==
    {l \in UNION {[1..n -> TradePool] : n \in 0..MaxTrades} :
        \A i, j \in 1..Len(l) : l[i] = l[j] => i = j}

\* What parseFloat makes of the tolerance field when it reads 0 or 5.
Tolerances == {Num(0), Num(5000)}

AppNext ==
    \/ Tick
    \/ rawTrades = <<>> /\ \E parsedTrades \in TradeLists : Upload(parsedTrades)
    \/ \E t \in Tolerances : HandleToleranceChange(t)

----------------------------------------------------------------------------
(* generatePineScriptForItem: the script as the sequence of its statements  *)

UpperChar(c) ==
    IF \E i \in 1..26 : LowerLetters[i] = c
    THEN UpperLetters[CHOOSE i \in 1..26 : LowerLetters[i] = c]
    ELSE c

\* String.prototype.toUpperCase
ToUpperCase(s) == [i \in 1..Len(s) |-> UpperChar(s[i])]

TxtTradesFromReport == <<" ", "T", "r", "a", "d", "e", "s", " ", "f", "r", "o", "m", " ", "R", "e", "p", "o", "r", "t">>

SizeNames == <<"size_tiny", "size_small", "size_normal", "size_large", "size_huge">>

SizeValues == <<"tiny", "small", "normal", "large", "huge">>

\* The header: the version line, the indicator, the five size strings, the
\* icon size input and the if that the blocks are the body of.
Header(item) ==
    <<[stmt |-> "//@version=5"],
      [stmt |-> "indicator", title |-> ToUpperCase(item) \o TxtTradesFromReport]>>
    \o [i \in 1..Len(SizeNames) |-> [stmt |-> "var string", name |-> SizeNames[i], value |-> SizeValues[i]]]
    \o <<[stmt |-> "input.string", name |-> "iconSize", defval |-> "size_normal", options |-> SizeNames],
         [stmt |-> "if barstate.islast"]>>

TxtTicketColon == <<"T", "i", "c", "k", "e", "t", ":", " ">>

\* The two characters \n of the template, a line break to Pine Script.
TxtBackslashN == <<"\\", "n">>

TxtTypeColon == <<"T", "y", "p", "e", ":", " ">>

TxtProfitColon == <<"P", "r", "o", "f", "i", "t", ":", " ">>

\* `Ticket: ${trade.ticket}\\nType: ${trade.type}\\nProfit: ${trade.profit.toFixed(2)}`
Tooltip(trade) ==
    TxtTicketColon \o trade.ticket \o TxtBackslashN \o TxtTypeColon \o trade.type
      \o TxtBackslashN \o TxtProfitColon \o toFixed(trade.profit, 2)

\* convertToPineScriptTimestamp(parseMT4DateToUTC(raw))
PineTimestamp(raw, clock) == convertToPineScriptTimestamp(parseMT4DateToUTC(raw, clock))

\* `    // Winner: ${trade.ticket}` and its like
CommentLine(kind, trade) == [stmt |-> "//", kind |-> kind, ticket |-> trade.ticket]

\* label.new(timestamp(...), price, style=..., color=color.new(c, 20), textcolor=c,
\*           size=iconSize, tooltip="...", xloc=xloc.bar_time, yloc=yloc.price)
LabelNew(timestamp, price, style, color, tooltip) ==
    [stmt |-> "label.new", x |-> timestamp, y |-> NumberToString(price), style |-> style,
     color |-> color, textcolor |-> color, size |-> "iconSize", tooltip |-> tooltip,
     xloc |-> "xloc.bar_time", yloc |-> "yloc.price"]

\* line.new(timestamp(...), price, timestamp(...), price, color=color.new(color.white, 50),
\*          style=line.style_dotted, width=1, xloc=xloc.bar_time, yloc=yloc.price)
LineNew(timestamp1, price1, timestamp2, price2) ==
    [stmt |-> "line.new", x1 |-> timestamp1, y1 |-> NumberToString(price1),
     x2 |-> timestamp2, y2 |-> NumberToString(price2), color |-> "color.white",
     style |-> "line.style_dotted", width |-> "1",
     xloc |-> "xloc.bar_time", yloc |-> "yloc.price"]

WinnerBlock(trade, openTimestamp, closeTimestamp, tooltip) ==
    <<CommentLine("Winner", trade),
      LabelNew(openTimestamp, trade.openPrice, "label.style_diamond", "color.green", tooltip),
      LabelNew(closeTimestamp, trade.closePrice, "label.style_diamond", "color.green", tooltip),
      LineNew(openTimestamp, trade.openPrice, closeTimestamp, trade.closePrice)>>

\* The first loop: winnersCode.
RECURSIVE WinnersCode(_, _)
WinnersCode(winners, clock) ==
    IF winners = <<>> THEN <<>>
    ELSE WinnerBlock(Head(winners), PineTimestamp(Head(winners).openTimeRaw, clock),
                     PineTimestamp(Head(winners).closeTimeRaw, clock), Tooltip(Head(winners)))
           \o WinnersCode(Tail(winners), clock)

BreakevenBlock(trade, openTimestamp, tooltip) ==
    <<CommentLine("Break Even", trade),
      LabelNew(openTimestamp, trade.openPrice, "label.style_circle", "color.blue", tooltip)>>

\* The second loop: breakevenCode.
RECURSIVE BreakevenCode(_, _)
BreakevenCode(breakeven, clock) ==
    IF breakeven = <<>> THEN <<>>
    ELSE BreakevenBlock(Head(breakeven), PineTimestamp(Head(breakeven).openTimeRaw, clock),
                        Tooltip(Head(breakeven)))
           \o BreakevenCode(Tail(breakeven), clock)

\* trade.type === 'buy' ? 'label.style_arrowup' : 'label.style_arrowdown'
LoserStyle(type) == IF type = TxtBuy THEN "label.style_arrowup" ELSE "label.style_arrowdown"

LoserBlock(trade, openTimestamp, tooltip) ==
    <<CommentLine("Loser", trade),
      LabelNew(openTimestamp, trade.openPrice, LoserStyle(trade.type), "color.red", tooltip)>>

\* The third loop: losersCode.
RECURSIVE LosersCode(_, _)
LosersCode(losers, clock) ==
    IF losers = <<>> THEN <<>>
    ELSE LoserBlock(Head(losers), PineTimestamp(Head(losers).openTimeRaw, clock),
                    Tooltip(Head(losers)))
           \o LosersCode(Tail(losers), clock)

\* The blocks in the order of the lists the wrong way round.
LosersFirst(item, data, clock) ==
    Header(item) \o LosersCode(data.losers, clock) \o BreakevenCode(data.breakeven, clock)
      \o WinnersCode(data.winners, clock)

\* header + winnersCode + breakevenCode + losersCode
generatePineScriptForItem(item, data, clock) ==
    Header(item) \o WinnersCode(data.winners, clock) \o BreakevenCode(data.breakeven, clock)
      \o LosersCode(data.losers, clock)

\* copyPineScript of a section: the script of one item is generated from the
\* trades of that item.  A generation takes nothing from an earlier one, so
\* one generation per run is followed.
Generate(item, data) ==
    /\ script = <<>>
    /\ genItem' = item
    /\ genData' = data
    /\ script' = generatePineScriptForItem(item, data, now)
    /\ UNCHANGED <<timeVars, parseVars, appVars>>

----------------------------------------------------------------------------
(* The items and lists the generator is tried on *)

\* A buy loser, profit -7.504.
TradeK ==
    [ticket       |-> <<"1", "0", "0", "0", "1", "1">>,
     openTimeRaw  |-> <<"2", "0", "2", "4", ".", "0", "1", ".", "1", "0", " ", "0", "9", ":", "0", "0", ":", "0", "0">>,
     type         |-> <<"b", "u", "y">>,
     size         |-> Num(100),
     item         |-> <<"e", "u", "r", "u", "s", "d">>,
     openPrice    |-> Num(1100),
     closeTimeRaw |-> <<"2", "0", "2", "4", ".", "0", "1", ".", "1", "0", " ", "0", "9", ":", "3", "0", ":", "0", "0">>,
     closePrice   |-> Num(1090),
     profit       |-> Num(-7504)]

\* A sell winner closed in the first minutes of the next year, profit 12.346.
TradeL ==
    [ticket       |-> <<"1", "0", "0", "0", "1", "2">>,
     openTimeRaw  |-> <<"2", "0", "2", "3", ".", "1", "2", ".", "3", "1", " ", "2", "3", ":", "5", "9", ":", "5", "9">>,
     type         |-> <<"s", "e", "l", "l">>,
     size         |-> Num(250),
     item         |-> <<"e", "u", "r", "u", "s", "d">>,
     openPrice    |-> Num(1105),
     closeTimeRaw |-> <<"2", "0", "2", "4", ".", "0", "1", ".", "0", "1", " ", "0", "6", ":", "5", "9", ":", "0", "0">>,
     closePrice   |-> Num(1100),
     profit       |-> Num(12346)]

GenItems == {TradeA.item, TradeI.item}

WinnerPool == {TradeA, TradeG, TradeL}

BreakevenPool == {TradeF}

LoserPool == {TradeE, TradeH, TradeK}

MaxList == 2

ListsOf(pool) == UNION {[1..n -> pool] : n \in 0..MaxList}

GenData == [winners : ListsOf(WinnerPool), breakeven : ListsOf(BreakevenPool), losers : ListsOf(LoserPool)]

GenNext ==
    \/ Tick
    \/ script = <<>> /\ \E item \in GenItems : \E data \in GenData : Generate(item, data)

----------------------------------------------------------------------------
(* Claims about parseMT4Report *)

HasClosedMarker(cells) == Len(cells) > 0 /\ Includes(cells[1], ClosedTransactionsMarker)

HasEndMarker(cells) ==
    /\ Len(cells) > 0
    /\ (Includes(cells[1], OpenTradesMarker) \/ Includes(cells[1], WorkingOrdersMarker))

\* The rows the loop has visited.
Visited == IF parsePc = "idle" THEN {} ELSE 1..(nextRow - 1)

\* No trade is collected before a "Closed Transactions:" row has been visited
\* (so a document without one yields the empty sequence, returned as usual).
NothingBeforeClosedMarker == (\A i \in Visited : ~HasClosedMarker(allRows[i])) => trades = <<>>

\* C4 (as the specification states it): once a row whose first cell contains
\* "Open Trades:" or "Working Orders:" is reached, the scan is over for good (no
\* further row is visited, the trades stay as they are) and no later row
\* reaches the output; without a "Closed Transactions:" row the output is empty.
C4_AnyEndMarkerStopsScan ==
    /\ [][(\E i \in Visited : HasEndMarker(allRows[i]))
            => (nextRow' = nextRow /\ trades' = trades)]_vars
    /\ []NothingBeforeClosedMarker

EndsScan(cells) == HasEndMarker(cells) /\ ~HasClosedMarker(cells)

\* C4 (amended): the same, for a row whose first cell contains "Open Trades:"
\* or "Working Orders:" and does not contain "Closed Transactions:" (a first
\* cell that holds both is taken as the closed marker, and the scan goes on).
C4_EndMarkerStopsScan ==
    /\ [][(\E i \in Visited : EndsScan(allRows[i]))
            => (nextRow' = nextRow /\ trades' = trades)]_vars
    /\ []NothingBeforeClosedMarker

\* The scan was left at an end marker although a "Closed Transactions:" row
\* and then a buy row of fourteen cells follow it, after a trade was collected.
C4_Witness ==
    /\ parsePc = "returned"
    /\ Len(trades) = 1
    /\ nextRow <= Len(allRows)
    /\ EndsScan(allRows[nextRow - 1])
    /\ \E j \in nextRow..Len(allRows) : allRows[j] = RowBuy
    /\ \E i \in 1..(nextRow - 2) : allRows[i] = RowBuy

IsNaN(n) == n.nan

\* C6 (as the specification states it): a numeric cell that is no number gives
\* 0, so no emitted Trade carries a not-a-number size, price or profit.
C6_NoNaNInTrades ==
    \A i \in 1..Len(trades) :
        /\ ~IsNaN(trades[i].size)
        /\ ~IsNaN(trades[i].openPrice)
        /\ ~IsNaN(trades[i].closePrice)
        /\ ~IsNaN(trades[i].profit)

\* Row i is a trade row of the closed section: a closed marker row comes
\* before it, no row up to it ends the scan, it is no marker row itself, it
\* has fourteen cells, its type is buy or sell and its item is not blank.
IsClosedTradeRow(rows, i) ==
    /\ \E j \in 1..(i - 1) : HasClosedMarker(rows[j])
    /\ \A k \in 1..i : ~EndsScan(rows[k])
    /\ ~HasClosedMarker(rows[i])
    /\ Len(rows[i]) = 14
    /\ ToLowerCase(Trim(rows[i][3])) \in {TxtBuy, TxtSell}
    /\ ToLowerCase(Trim(rows[i][5])) # <<>>

\* The records of the trade rows among rows 1..n, in row order.
RECURSIVE ClosedTradesUpTo(_, _)
ClosedTradesUpTo(rows, n) ==
    IF n = 0 THEN <<>>
    ELSE IF IsClosedTradeRow(rows, n)
         THEN Append(ClosedTradesUpTo(rows, n - 1),
                     TradeOfRow(rows[n], ToLowerCase(Trim(rows[n][3]))))
    ELSE ClosedTradesUpTo(rows, n - 1)

\* C10: the output is exactly the subsequence, in row order, of the rows of
\* the closed section that have fourteen cells, type buy or sell and an item;
\* marker rows and all other rows give no record, and a row that is no marker
\* leaves the section flag as it is.
C10_OutputIsClosedTradeRows ==
    /\ [](parsePc = "returned" => trades = ClosedTradesUpTo(allRows, Len(allRows)))
    /\ [](parsePc = "scanning" => trades = ClosedTradesUpTo(allRows, nextRow - 1))
    /\ [][(parsePc = "scanning" /\ nextRow' = nextRow + 1
             /\ ~HasClosedMarker(allRows[nextRow]) /\ ~HasEndMarker(allRows[nextRow]))
          => inClosedTransactions' = inClosedTransactions]_vars

\* Two trades were collected around rows that were skipped.
C10_Witness ==
    /\ parsePc = "returned"
    /\ Len(trades) = 2
    /\ allRows[1] = RowClosedMarker
    /\ \E i \in 2..Len(allRows) : allRows[i] \in {RowBuyLimit, RowBlankItem, RowThirteen}
    /\ inClosedTransactions

----------------------------------------------------------------------------
(* Claims about classifyAndGroupTrades, on the result the App holds         *)

Classified == groupedTrades # NullGrouped

Items == IF Classified THEN DOMAIN groupedTrades ELSE {}

Count(seq, x) == Cardinality({i \in 1..Len(seq) : seq[i] = x})

Range(seq) == {seq[i] : i \in 1..Len(seq)}

\* Everything the result holds under one item.
Placed(item) ==
    groupedTrades[item].winners \o groupedTrades[item].breakeven \o groupedTrades[item].losers

RECURSIVE CountPlaced(_, _)
CountPlaced(items, x) ==
    IF items = {} THEN 0
    ELSE LET item == CHOOSE i \in items : TRUE
         IN  Count(Placed(item), x) + CountPlaced(items \ {item}, x)

\* C1 (as the specification states it): for a tolerance t >= 0 every winner
\* has profit > t, every breakeven trade -t <= profit <= t, every loser
\* profit < -t; a trade stands under its own item only and in one bucket only,
\* and every input trade with profit <= t is in the result exactly once.
C1_BucketsByProfit ==
    (Classified /\ Ge(beTolerance, Num(0))) =>
        /\ \A item \in Items :
            /\ \A x \in Range(groupedTrades[item].winners) : Gt(x.profit, beTolerance)
            /\ \A x \in Range(groupedTrades[item].breakeven) :
                   Ge(x.profit, Neg(beTolerance)) /\ Le(x.profit, beTolerance)
            /\ \A x \in Range(groupedTrades[item].losers) : Lt(x.profit, Neg(beTolerance))
            /\ \A x \in Range(Placed(item)) : x.item = item
            /\ Range(groupedTrades[item].winners) \cap Range(groupedTrades[item].breakeven) = {}
            /\ Range(groupedTrades[item].winners) \cap Range(groupedTrades[item].losers) = {}
            /\ Range(groupedTrades[item].breakeven) \cap Range(groupedTrades[item].losers) = {}
        /\ \A x \in Range(rawTrades) :
               Le(x.profit, beTolerance) => CountPlaced(Items, x) = Count(rawTrades, x)

SamePair(a, b) == a.openTimeRaw = b.openTimeRaw /\ a.openPrice = b.openPrice

\* The input trades of an item that are winners, and the others, in the order
\* the call left the input in.
WinningInput(item) ==
    SelectSeq(rawTrades, LAMBDA x : x.item = item /\ Gt(x.profit, beTolerance))

OtherInput(item) ==
    SelectSeq(rawTrades, LAMBDA x : x.item = item /\ ~Gt(x.profit, beTolerance))

\* C2: no two winners of an item share (openTimeRaw, openPrice); of the
\* winning input trades of each such pair exactly one is left, one whose
\* profit is the largest among them; breakeven and losers lose nothing, however
\* many of them share a pair.
C2_WinnersDeduplicated ==
    \A item \in Items :
        LET winners == groupedTrades[item].winners
            others  == groupedTrades[item].breakeven \o groupedTrades[item].losers
        IN  /\ \A i, j \in 1..Len(winners) : SamePair(winners[i], winners[j]) => i = j
            /\ Range(winners) \subseteq Range(WinningInput(item))
            /\ \A x \in Range(WinningInput(item)) :
                   \E i \in 1..Len(winners) :
                       /\ SamePair(winners[i], x)
                       /\ Ge(winners[i].profit, x.profit)
            /\ \A x \in Range(OtherInput(item)) : Count(others, x) = Count(OtherInput(item), x)
            /\ Len(others) = Len(OtherInput(item))

\* Two winners of one open time and price, profits 10 and 15, were given with
\* a third trade that is no winner: the 15 alone is a winner.
C2_Witness ==
    /\ Classified
    /\ TradeA \in Range(rawTrades) /\ TradeB \in Range(rawTrades)
    /\ Gt(TradeA.profit, beTolerance)
    /\ \E item \in Items :
        /\ groupedTrades[item].winners = <<TradeB>>
        /\ Len(groupedTrades[item].breakeven) + Len(groupedTrades[item].losers) = 1

\* Ascending by the instant of the open time, as read at the given clock.
Ascending(seq, clock) ==
    \A i \in 1..(Len(seq) - 1) : OpenTime(seq[i], clock) <= OpenTime(seq[i + 1], clock)

AllAscending(grouped, clock) ==
    grouped # NullGrouped =>
        \A item \in DOMAIN grouped :
            /\ Ascending(grouped[item].winners, clock)
            /\ Ascending(grouped[item].breakeven, clock)
            /\ Ascending(grouped[item].losers, clock)

\* C3: in the result of a call, winners, breakeven and losers of every item
\* are each in ascending order of the instant their openTimeRaw gives (the
\* instants as the call reads them); the array the call sorted is so too.
C3_AscendingOpenInstant ==
    [][now' = now => (AllAscending(groupedTrades', now') /\ Ascending(rawTrades', now'))]_vars

\* A result in which one list holds two trades of different open instants,
\* and a trade whose open time is no timestamp is placed as well.
C3_Witness ==
    /\ Classified
    /\ \E item \in Items : \E b \in {"winners", "breakeven", "losers"} :
        /\ Len(groupedTrades[item][b]) >= 2
        /\ OpenTime(groupedTrades[item][b][1], now) < OpenTime(groupedTrades[item][b][2], now)
    /\ \E x \in Range(rawTrades) : ~HasMatch(x.openTimeRaw)

----------------------------------------------------------------------------
(* Claims about generatePineScriptForItem *)

Generated == script # <<>>

HeaderLen == Len(Header(<<>>))

\* Where the blocks of the three lists begin in the script.
WinnerAt(k) == HeaderLen + 4 * (k - 1)

BreakevenAt(k) == HeaderLen + 4 * Len(genData.winners) + 2 * (k - 1)

LoserAt(k) == HeaderLen + 4 * Len(genData.winners) + 2 * Len(genData.breakeven) + 2 * (k - 1)

CountStmt(name) == Cardinality({i \in 1..Len(script) : script[i].stmt = name})

\* A marker at an instant and a price: a label.new whose x is the display
\* timestamp of the raw time and whose y is the price written out.
IsMarkerAt(st, raw, price, clock) ==
    /\ st.stmt = "label.new"
    /\ st.x = convertToPineScriptTimestamp(parseMT4DateToUTC(raw, clock))
    /\ st.y = NumberToString(price)

\* The readings of the clock.
Clocks == {NowStart + i * SecPerHour : i \in 0..MaxTicks}

ScriptStructure(clock) ==
    Generated =>
        /\ SubSeq(script, 1, HeaderLen) = Header(genItem)
        /\ Len(script) = HeaderLen + 4 * Len(genData.winners) + 2 * Len(genData.breakeven)
                           + 2 * Len(genData.losers)
        /\ \A k \in 1..Len(genData.winners) :
            /\ script[WinnerAt(k) + 1].stmt = "//"
            /\ script[WinnerAt(k) + 1].ticket = genData.winners[k].ticket
            /\ IsMarkerAt(script[WinnerAt(k) + 2], genData.winners[k].openTimeRaw,
                          genData.winners[k].openPrice, clock)
            /\ IsMarkerAt(script[WinnerAt(k) + 3], genData.winners[k].closeTimeRaw,
                          genData.winners[k].closePrice, clock)
            /\ script[WinnerAt(k) + 4].stmt = "line.new"
        /\ \A k \in 1..Len(genData.breakeven) :
            /\ script[BreakevenAt(k) + 1].stmt = "//"
            /\ script[BreakevenAt(k) + 1].ticket = genData.breakeven[k].ticket
            /\ IsMarkerAt(script[BreakevenAt(k) + 2], genData.breakeven[k].openTimeRaw,
                          genData.breakeven[k].openPrice, clock)
        /\ \A k \in 1..Len(genData.losers) :
            /\ script[LoserAt(k) + 1].stmt = "//"
            /\ script[LoserAt(k) + 1].ticket = genData.losers[k].ticket
            /\ IsMarkerAt(script[LoserAt(k) + 2], genData.losers[k].openTimeRaw,
                          genData.losers[k].openPrice, clock)
            /\ genData.losers[k].type = TxtBuy => script[LoserAt(k) + 2].style = "label.style_arrowup"
            /\ genData.losers[k].type = TxtSell => script[LoserAt(k) + 2].style = "label.style_arrowdown"
        /\ CountStmt("label.new") = 2 * Len(genData.winners) + Len(genData.breakeven)
                                      + Len(genData.losers)
        /\ CountStmt("line.new") = Len(genData.winners)

\* C7: after the header the script has one block per trade, the winners
\* first, then the breakeven trades, then the losers, each list in its order;
\* a winner's block is its open marker, its close marker and a line, a
\* breakeven or loser block one marker at the open instant and price; that is
\* 2|W| + |B| + |L| markers and |W| lines; a loser's marker is the up-arrow
\* for buy and the down-arrow for sell.
\* (The instants are those read at the time of the generation, a time up to now.)
C7_OneBlockPerTrade == \E clock \in Clocks : clock <= now /\ ScriptStructure(clock)

\* A script of two winners, a breakeven trade and a buy and a sell loser.
C7_Witness ==
    /\ Generated
    /\ Len(genData.winners) = 2 /\ genData.winners[1] # genData.winners[2]
    /\ Len(genData.breakeven) = 1
    /\ Len(genData.losers) = 2
    /\ genData.losers[1].type = TxtBuy /\ genData.losers[2].type = TxtSell
    /\ script[Len(script)].style = "label.style_arrowdown"

\* The text is a number of exactly two decimals, and the one nearest to n.
IsTwoDecimalsOf(text, n) ==
    LET unsigned == IF text # <<>> /\ Head(text) = "-" THEN Tail(text) ELSE text
        len      == Len(unsigned)
    IN  /\ len >= 4
        /\ unsigned[len - 2] = "."
        /\ \A i \in (1..len) \ {len - 2} : IsDigit(unsigned[i])
        /\ ~n.nan
        /\ (text[1] = "-") => n.v < 0
        /\ LET hundredths == NumberOf(unsigned, 1, len - 3) * 100 + NumberOf(unsigned, len - 1, len)
               mag        == IF n.v < 0 THEN -n.v ELSE n.v
           IN  /\ 2 * (hundredths * 10 - mag) <= 10
               /\ 2 * (mag - hundredths * 10) <= 10

\* The tooltip names the ticket, the side and the profit to two decimals.
IsTooltipOf(tooltip, trade) ==
    LET lead == TxtTicketColon \o trade.ticket \o TxtBackslashN \o TxtTypeColon \o trade.type
                  \o TxtBackslashN \o TxtProfitColon
    IN  /\ Len(tooltip) > Len(lead)
        /\ SubSeq(tooltip, 1, Len(lead)) = lead
        /\ IsTwoDecimalsOf(SubSeq(tooltip, Len(lead) + 1, Len(tooltip)), trade.profit)

HasTooltip(st) == "tooltip" \in DOMAIN st

\* C8 (as the specification states it): the open marker, the close marker
\* and the line of a winner all carry the same tooltip, which names ticket,
\* side and the profit to exactly two decimals.
C8_ThreeStatementsOneTooltip ==
    Generated =>
        \A k \in 1..Len(genData.winners) :
            /\ \A j \in 2..4 : HasTooltip(script[WinnerAt(k) + j])
            /\ IsTooltipOf(script[WinnerAt(k) + 2].tooltip, genData.winners[k])
            /\ script[WinnerAt(k) + 3].tooltip = script[WinnerAt(k) + 2].tooltip
            /\ script[WinnerAt(k) + 4].tooltip = script[WinnerAt(k) + 2].tooltip

\* C8 (amended): the open marker and the close marker of a winner carry the
\* same tooltip, which names ticket, side and the profit to exactly two
\* decimals; the line carries no tooltip.
C8_TwoMarkersOneTooltip ==
    Generated =>
        \A k \in 1..Len(genData.winners) :
            /\ HasTooltip(script[WinnerAt(k) + 2])
            /\ HasTooltip(script[WinnerAt(k) + 3])
            /\ IsTooltipOf(script[WinnerAt(k) + 2].tooltip, genData.winners[k])
            /\ script[WinnerAt(k) + 3].tooltip = script[WinnerAt(k) + 2].tooltip
            /\ ~HasTooltip(script[WinnerAt(k) + 4])

\* A script with the winner of profit 12.346, whose markers say 12.35, and
\* with the winner of profit 10, whose markers say 10.00.
C8_Witness ==
    /\ Generated
    /\ genData.winners = <<TradeL, TradeA>>
    /\ script[WinnerAt(1) + 2].tooltip = Tooltip(TradeL)
    /\ SubSeq(Tooltip(TradeL), Len(Tooltip(TradeL)) - 4, Len(Tooltip(TradeL))) = <<"1", "2", ".", "3", "5">>
    /\ SubSeq(script[WinnerAt(2) + 3].tooltip, Len(Tooltip(TradeA)) - 4, Len(Tooltip(TradeA))) = <<"1", "0", ".", "0", "0">>

----------------------------------------------------------------------------
(* Claim about the stored trades over the calls of classifyAndGroupTrades   *)

\* C11 (as the specification states it): classifying leaves its input
\* untouched: whatever calls were made, the stored trades are the records
\* parseMT4Report produced, in the order it produced them, and the result held
\* is that of classifying a fresh copy of them with the tolerance in force
\* (the instants as read at the time of the call, a time up to now).
C11_InputUntouched ==
    /\ rawTrades = reportTrades
    /\ Classified =>
           \E clock \in Clocks :
               /\ clock <= now
               /\ groupedTrades = classifyAndGroupTrades(reportTrades, beTolerance, clock).grouped

----------------------------------------------------------------------------
(* Specifications: one initial state, one specification per component.     *)

Init ==
    /\ now = NowStart
    /\ dateStr = <<>>
    /\ parseOutcome = "none"
    /\ utcDate = 0
    /\ pineTs = NoTimestamp
    /\ parsePc = "idle"
    /\ allRows = <<>>
    /\ nextRow = 1
    /\ inClosedTransactions = FALSE
    /\ trades = <<>>
    /\ reportTrades = <<>>
    /\ rawTrades = <<>>
    /\ beTolerance = Num(0)
    /\ groupedTrades = NullGrouped
    /\ error = NoError
    /\ genItem = <<>>
    /\ genData = [winners |-> <<>>, breakeven |-> <<>>, losers |-> <<>>]
    /\ script = <<>>

\* The Time Reconciler under a running clock.
SpecTime == Init /\ [][TimeNext]_vars

\* The Report Parser on every document of the bounded set.
SpecParse == Init /\ [][ParseNext]_vars

\* The App: one report uploaded, the tolerance changed, the clock running.
SpecApp == Init /\ [][AppNext]_vars

SpecGen == Init /\ [][GenNext]_vars

====
